---- MODULE Spec2Model ----
(***************************************************************************)
(* PacketStream: COBS packet framing over a byte-oriented FileHandle.      *)
(*                                                                         *)
(* The model follows src/PacketStream.cpp.  The encoder state is           *)
(* (_tx_pos, _tx_buf), the decoder state is (_rx_next_zero, _rx_next_pad). *)
(* The transport (_io) is a FIFO of bytes, as PacketStreamLoopFileHandle   *)
(* implements it; write calls may also fail or come back short, and read   *)
(* calls fail when no byte is available.                                   *)
(***************************************************************************)
EXTENDS Integers, Sequences, FiniteSets, TLC

VARIABLES
    tx_pos,        \* uint16_t _tx_pos
    tx_buf,        \* uint8_t _tx_buf[256 + 1]; _tx_buf[k] is tx_buf[k + 1]
    rx_next_zero,  \* uint8_t _rx_next_zero
    rx_next_pad,   \* bool _rx_next_pad
    wire,          \* bytes held by the transport, oldest first
    call,          \* the last PacketStream call: arguments, results, transport log
    rx_last,       \* the status the last read call ended with
    sent,          \* loopback: payloads written and not yet read, oldest first
    nops,          \* number of calls made so far
    wctx,          \* the context inside write: its position and its locals
    rctx,          \* the context inside read: its position and its locals
    cobs_errors,       \* uint32_t cobs_errors (main.cpp)
    unknown_commands   \* uint32_t unknown_commands (main.cpp)

vars == <<tx_pos, tx_buf, rx_next_zero, rx_next_pad, wire, call, rx_last, sent, nops,
          wctx, rctx, cobs_errors, unknown_commands>>

\* What belongs to main.cpp and to the contexts that run a call step by step
others == <<wctx, rctx, cobs_errors, unknown_commands>>

----------------------------------------------------------------------------
(* Program constants *)

\* if (_tx_pos >= 255): a block holds its length byte and up to 254 data bytes
BlockMax == 255

\* uint8_t _tx_buf[256 + 1]: indices 0..256
TxBufSize == 257

\* uint8_t arithmetic
Byte == 256

\* uint16_t _tx_pos
Word16 == 65536

----------------------------------------------------------------------------
(* Transport: mbed::FileHandle as PacketStream uses it *)

\* ssize_t write(buffer, size): all bytes are taken ("full"), or the call
\* fails and takes nothing ("error", -1 as PacketStreamLoopFileHandle::write
\* returns when the buffer has no room), or it takes all but the last byte
\* ("short").  Result: the returned count and the transport's contents.
io_write(w, bytes, mode) ==
    CASE mode = "full"  -> [ret |-> Len(bytes), wire |-> w \o bytes]
      [] mode = "short" -> [ret |-> Len(bytes) - 1,
                            wire |-> w \o SubSeq(bytes, 1, Len(bytes) - 1)]
      [] OTHER          -> [ret |-> -1, wire |-> w]

\* The mode of the k-th transport write of one call; writes no mode is given
\* for are taken in full.
ModeOf(modes, k) == IF k \in DOMAIN modes THEN modes[k] ELSE "full"

\* ssize_t read(buffer, 1): one byte is taken from the head when there is one
\* and the transport does not fail; otherwise nothing is read.
io_read(w, fail) ==
    IF fail \/ w = <<>>
    THEN [ret |-> 0, val |-> 0, wire |-> w]
    ELSE [ret |-> 1, val |-> Head(w), wire |-> Tail(w)]

----------------------------------------------------------------------------
(* Encoder *)

\* _tx_buf[k], and _tx_buf[k] = v
BufAt(buf, k) == buf[k + 1]

BufSet(buf, k, v) == [buf EXCEPT ![k + 1] = v]

\* _tx_buf[0 .. n-1] as the byte sequence handed to _io->write
BufBytes(buf, n) == SubSeq(buf, 1, n)

\* A slip: the result of the last transport write alone decides success
IoWriteStep_LastWins(e, modes) ==
    LET bytes == BufBytes(e.buf, e.pos)
        r     == io_write(e.io, bytes, ModeOf(modes, Len(e.log) + 1))
    IN  [e EXCEPT !.io = r.wire,
                  !.success = (r.ret = e.pos),
                  !.log = Append(e.log, [bytes |-> bytes, ret |-> r.ret])]

\* if (_io->write(_tx_buf, _tx_pos) != _tx_pos) success = false;
\* e is the running state of one _cobs_write call:
\*   pos, buf: _tx_pos, _tx_buf;  success: the local;  io: the transport;
\*   log: the transport writes issued so far, each with its returned count.
IoWriteStep(e, modes) ==
    LET bytes == BufBytes(e.buf, e.pos)
        r     == io_write(e.io, bytes, ModeOf(modes, Len(e.log) + 1))
    IN  [e EXCEPT !.io = r.wire,
                  !.success = IF r.ret # e.pos THEN FALSE ELSE e.success,
                  !.log = Append(e.log, [bytes |-> bytes, ret |-> r.ret])]

\* A slip: the full block is flushed one byte late
FlushOverhead_Late(e, modes) ==
    IF e.pos > BlockMax
    THEN LET e1 == [e EXCEPT !.buf = BufSet(e.buf, 0, e.pos % Byte)]
             e2 == IoWriteStep(e1, modes)
         IN  [e2 EXCEPT !.pos = 1, !.buf = BufSet(e2.buf, 0, 0)]
    ELSE e

\* Flush and stuff if not enough zeros
FlushOverhead(e, modes) ==
    IF e.pos >= BlockMax
    THEN LET e1 == [e EXCEPT !.buf = BufSet(e.buf, 0, e.pos % Byte)]
             e2 == IoWriteStep(e1, modes)
         IN  [e2 EXCEPT !.pos = 1, !.buf = BufSet(e2.buf, 0, 0)]
    ELSE e

\* A slip: the length byte counts the zero it stands for
FlushZero_CountsZero(e, b, modes) ==
    IF b = 0
    THEN LET e1 == [e EXCEPT !.buf = BufSet(e.buf, 0, (e.pos + 1) % Byte)]
             e2 == IoWriteStep(e1, modes)
         IN  [e2 EXCEPT !.pos = 0]
    ELSE e

\* Escape and flush if zero
FlushZero(e, b, modes) ==
    IF b = 0
    THEN LET e1 == [e EXCEPT !.buf = BufSet(e.buf, 0, e.pos % Byte)]
             e2 == IoWriteStep(e1, modes)
         IN  [e2 EXCEPT !.pos = 0]
    ELSE e

\* Add byte
AddByte(e, b) ==
    [e EXCEPT !.buf = BufSet(e.buf, e.pos, b), !.pos = (e.pos + 1) % Word16]

\* One iteration of the for loop of _cobs_write
CobsWriteByte(e, b, modes) ==
    AddByte(FlushZero(FlushOverhead(e, modes), b, modes), b)

\* A slip: the encoder is reset only when the final write went through
CobsWriteLast_ResetOnSuccess(e, modes) ==
    LET e1 == [e EXCEPT !.buf = BufSet(e.buf, 0, e.pos % Byte)]
        e2 == [e1 EXCEPT !.buf = BufSet(e1.buf, e1.pos, 0), !.pos = (e1.pos + 1) % Word16]
        e3 == IoWriteStep(e2, modes)
    IN  IF e3.success THEN [e3 EXCEPT !.buf = BufSet(e3.buf, 0, 0), !.pos = 1] ELSE e3

\* if (last) { ... }: the final block, the delimiter, and the reset
CobsWriteLast(e, modes) ==
    LET e1 == [e EXCEPT !.buf = BufSet(e.buf, 0, e.pos % Byte)]
        e2 == [e1 EXCEPT !.buf = BufSet(e1.buf, e1.pos, 0), !.pos = (e1.pos + 1) % Word16]
        e3 == IoWriteStep(e2, modes)
    IN  [e3 EXCEPT !.buf = BufSet(e3.buf, 0, 0), !.pos = 1]

\* for (size_t i = 0; i < size; i++): iterations lo..hi of the loop, in order
\* (the range is split in halves, and e is evaluated before the range is
\* entered, so that the evaluation stays shallow)
RECURSIVE CobsWriteLoop(_, _, _, _, _)
CobsWriteLoop(e, data, lo, hi, modes) ==
    IF lo > hi \/ e.pos < 0 THEN e
    ELSE IF lo = hi THEN CobsWriteByte(e, data[lo], modes)
    ELSE LET mid == (lo + hi) \div 2
         IN  CobsWriteLoop(CobsWriteLoop(e, data, lo, mid, modes),
                           data, mid + 1, hi, modes)

\* bool PacketStream::_cobs_write(data, size, last)
cobs_write(pos, buf, io, data, last, modes) ==
    LET e0 == [pos |-> pos, buf |-> buf, io |-> io, success |-> TRUE, log |-> <<>>]
        e1 == CobsWriteLoop(e0, data, 1, Len(data), modes)
    IN  IF last THEN CobsWriteLast(e1, modes) ELSE e1

\* bool PacketStream::write(data, size)
write(pos, buf, io, data, modes) == cobs_write(pos, buf, io, data, TRUE, modes)

----------------------------------------------------------------------------
(* Decoder *)

\* enum DecodingStatus
DecodingDone == "DecodingDone"
DecodingContinue == "DecodingContinue"
DecodingCobsError == "DecodingCobsError"
DecodingFileError == "DecodingFileError"

\* DecodingStatus PacketStream::_getc(uint8_t *val)
\* d is the running state of one read call:
\*   zero, pad: _rx_next_zero, _rx_next_pad;  io: the transport;
\*   nread: the transport reads issued so far;  failAt: the transport read that
\*   fails (0: none does; a read also fails when the transport is empty).
getc(d) ==
    LET r == io_read(d.io, d.nread + 1 = d.failAt)
    IN  [st  |-> IF r.ret = 1 THEN DecodingContinue ELSE DecodingFileError,
         val |-> r.val,
         d   |-> [d EXCEPT !.io = r.wire, !.nread = d.nread + 1,
                           !.taken = IF r.ret = 1 THEN Append(d.taken, r.val)
                                      ELSE d.taken]]

\* A slip: every zero ends a valid packet
EndOfPacket_AlwaysDone(d) ==
    [st  |-> DecodingDone,
     val |-> 0,
     d   |-> [d EXCEPT !.zero = 1, !.pad = TRUE]]

\* A slip: the decoder is reset only at a valid end of packet
EndOfPacket_ResetWhenValid(d) ==
    [st  |-> IF d.zero = 0 THEN DecodingDone ELSE DecodingCobsError,
     val |-> 0,
     d   |-> IF d.zero = 0 THEN [d EXCEPT !.zero = 1, !.pad = TRUE] ELSE d]

\* A slip: the counter is not set back at the end of a packet
EndOfPacket_KeepsCount(d) ==
    [st  |-> IF d.zero = 0 THEN DecodingDone ELSE DecodingCobsError,
     val |-> 0,
     d   |-> [d EXCEPT !.pad = TRUE]]

\* A slip: a misplaced zero is passed over and decoding goes on
EndOfPacket_SkipsMisplaced(d) ==
    [st  |-> IF d.zero = 0 THEN DecodingDone ELSE DecodingContinue,
     val |-> 0,
     d   |-> [d EXCEPT !.zero = 1, !.pad = TRUE]]

\* Check for end of packet: pointer to end of packet must be valid
EndOfPacket(d) ==
    [st  |-> IF d.zero = 0 THEN DecodingDone ELSE DecodingCobsError,
     val |-> 0,
     d   |-> [d EXCEPT !.zero = 1, !.pad = TRUE]]

\* A slip: a block of 255 is taken to end in a zero like any other
LengthByte_NoPad(d, data) == [d EXCEPT !.zero = data, !.pad = FALSE]

\* A slip: every length byte is taken to follow a full block
LengthByte_AlwaysPad(d, data) == [d EXCEPT !.zero = data, !.pad = TRUE]

\* Check for cobs encoded data: the byte is a length byte
LengthByte(d, data) == [d EXCEPT !.zero = data, !.pad = (data = BlockMax)]

\* The one element of a set of one: in The({ F(x) : x \in {e} }) the value e
\* is worked out once, however often F uses it
The(S) == CHOOSE x \in S : TRUE

\* DecodingStatus PacketStream::_cobs_getc(uint8_t *val)
\* depth counts the nested calls; least is the least value _rx_next_zero had
\* when a call of the running read was entered (256 before the first).
RECURSIVE cobs_getc(_, _)

\* _cobs_getc from _rx_next_zero-- on, g being what _getc gave
AfterGetc(g, depth) ==
    The({ IF g.val = 0
          THEN EndOfPacket(d1)
          ELSE IF d1.zero = 0
               THEN IF d1.pad
                    THEN cobs_getc(LengthByte(d1, g.val), depth + 1)
                    ELSE [st |-> DecodingContinue, val |-> 0,
                          d |-> LengthByte(d1, g.val)]
               ELSE [st |-> DecodingContinue, val |-> g.val, d |-> d1]
          : d1 \in {[g.d EXCEPT !.zero = (g.d.zero - 1) % Byte]} })

cobs_getc(d0, depth) ==
    The({ IF g.st # DecodingContinue THEN g ELSE AfterGetc(g, depth)
          : g \in {getc([d0 EXCEPT !.depth = IF depth > d0.depth THEN depth
                                              ELSE d0.depth,
                                   !.least = IF d0.zero < d0.least THEN d0.zero
                                              ELSE d0.least])} })

\* A slip: the bound is off by one
Store_OffByOne(data, size, pos, val) ==
    IF pos <= size THEN [data EXCEPT ![pos] = val] ELSE data

\* if (pos < size) { data[pos] = val; }
Store(data, size, pos, val) ==
    IF pos < size THEN [data EXCEPT ![pos] = val] ELSE data

\* A slip: the delimiter is counted as a byte of the packet
ReadStep_CountsDelimiter(r) ==
    LET c == cobs_getc(r.d, 1)
    IN  IF c.st = DecodingContinue
        THEN [r EXCEPT !.status = c.st, !.d = c.d,
                       !.data = Store(r.data, r.size, r.pos, c.val),
                       !.out = Append(r.out, c.val),
                       !.pos = r.pos + 1]
        ELSE IF c.st = DecodingDone
        THEN [r EXCEPT !.status = c.st, !.d = c.d, !.actual = r.pos + 1, !.ret = TRUE]
        ELSE [r EXCEPT !.status = c.st, !.d = c.d, !.ret = FALSE]

\* A slip: the count is reported on failure too
ReadStep_AssignsOnFailure(r) ==
    LET c == cobs_getc(r.d, 1)
    IN  IF c.st = DecodingContinue
        THEN [r EXCEPT !.status = c.st, !.d = c.d,
                       !.data = Store(r.data, r.size, r.pos, c.val),
                       !.out = Append(r.out, c.val),
                       !.pos = r.pos + 1]
        ELSE [r EXCEPT !.status = c.st, !.d = c.d, !.actual = r.pos,
                       !.ret = (c.st = DecodingDone)]

\* One iteration of the while loop of PacketStream::read.
\* r: status (of the last _cobs_getc), pos, data (the caller's memory at
\* data[0..]), size, actual (*actual), ret, d (decoder and transport), and
\* out: every val the loop was given, stored or not.
ReadStep(r) ==
    LET c == cobs_getc(r.d, 1)
    IN  IF c.st = DecodingContinue
        THEN [r EXCEPT !.status = c.st, !.d = c.d,
                       !.data = Store(r.data, r.size, r.pos, c.val),
                       !.out = Append(r.out, c.val),
                       !.pos = r.pos + 1]
        ELSE IF c.st = DecodingDone
        THEN [r EXCEPT !.status = c.st, !.d = c.d, !.actual = r.pos, !.ret = TRUE]
        ELSE [r EXCEPT !.status = c.st, !.d = c.d, !.ret = FALSE]

\* while (true): at most n iterations, stopping at the first terminal status
\* (the range is split in halves so that the evaluation stays shallow)
RECURSIVE ReadLoop(_, _)
ReadLoop(r, n) ==
    IF n = 0 \/ r.status # DecodingContinue THEN r
    ELSE IF n = 1 THEN ReadStep(r)
    ELSE ReadLoop(ReadLoop(r, n \div 2), n - (n \div 2))

\* bool PacketStream::read(uint8_t *data, size_t size, size_t *actual)
\* Every iteration but the last takes at least one byte from the transport,
\* so Len(io) + 1 iterations reach the terminal status.
read(zero, pad, io, data, size, actual, failAt) ==
    LET d0 == [zero |-> zero, pad |-> pad, io |-> io, nread |-> 0,
               failAt |-> failAt, taken |-> <<>>, depth |-> 0, least |-> Byte]
        r0 == [status |-> DecodingContinue, pos |-> 0, data |-> data,
               size |-> size, actual |-> actual, ret |-> FALSE, out |-> <<>>,
               d |-> d0]
    IN  ReadLoop(r0, Len(io) + 1)

----------------------------------------------------------------------------
(* Formatted layer: vsnprintf / vsprintf and vsscanf, for formats made of
   literal characters and %i.  Texts are sequences of character codes. *)

\* uint8_t buf[64 + 1] of scanf: the capacity handed to read
ScanCap == 64

Min(a, b) == IF a < b THEN a ELSE b

\* EOF, what vsscanf returns when the input ends before the first conversion
EndOfInput == -1

\* INT_MIN and INT_MAX of a 32-bit int
IntMin == -2147483647 - 1
IntMax == 2147483647

\* A format is a sequence of items: a literal character or a %i conversion
Lit(c) == [k |-> "lit", c |-> c]
ConvI == [k |-> "int", c |-> 0]

\* isspace and friends
IsSpace(c) == c \in {32, 9, 10, 11, 12, 13}

\* The value of c as a digit, 99 when it is none
DigitVal(c) ==
    IF c \in 48..57 THEN c - 48
    ELSE IF c \in 97..102 THEN c - 87
    ELSE IF c \in 65..70 THEN c - 55
    ELSE 99

\* %i of printf, n >= 0: the decimal digits, most significant first
RECURSIVE Digits(_)
Digits(n) ==
    IF n < 10 THEN <<48 + n>> ELSE Append(Digits(n \div 10), 48 + (n % 10))

\* %i of printf, n < 0: the decimal digits of -n, computed without negating n
RECURSIVE NegDigits(_)
NegDigits(n) ==
    LET d    == (10 - (n % 10)) % 10
        rest == (n + d) \div 10
    IN  IF rest = 0 THEN <<48 + d>> ELSE Append(NegDigits(rest), 48 + d)

\* A slip: the sign is left out
RenderInt_NoSign(n) == IF n < 0 THEN NegDigits(n) ELSE Digits(n)

\* %i of printf
RenderInt(n) == IF n < 0 THEN <<45>> \o NegDigits(n) ELSE Digits(n)

\* vsprintf(temp, format, arg): the rendered characters, without terminator
RECURSIVE Render(_, _)
Render(fmt, args) ==
    IF fmt = <<>> THEN <<>>
    ELSE IF Head(fmt).k = "int"
         THEN RenderInt(Head(args)) \o Render(Tail(fmt), Tail(args))
         ELSE <<Head(fmt).c>> \o Render(Tail(fmt), args)

\* The C string that starts at s[1]: the characters before the first zero
RECURSIVE CStrFrom(_, _)
CStrFrom(s, i) ==
    IF i > Len(s) \/ s[i] = 0 THEN <<>> ELSE <<s[i]>> \o CStrFrom(s, i + 1)

CStr(s) == CStrFrom(s, 1)

\* White space is skipped: the index of the first character at or after i
\* that is none
RECURSIVE SkipSpace(_, _)
SkipSpace(s, i) ==
    IF i <= Len(s) /\ IsSpace(s[i]) THEN SkipSpace(s, i + 1) ELSE i

\* strtol's digit loop: digits in the base from s[j] on, added to acc (towards
\* the negative when neg)
RECURSIVE Accum(_, _, _, _, _)
Accum(s, j, base, acc, neg) ==
    IF j <= Len(s) /\ DigitVal(s[j]) < base
    THEN Accum(s, j + 1, base,
               IF neg THEN acc * base - DigitVal(s[j]) ELSE acc * base + DigitVal(s[j]),
               neg)
    ELSE [val |-> acc, next |-> j]

\* %i of vsscanf at s[i], white space already skipped: an optional sign, then
\* 0x and hexadecimal digits, or 0 and octal digits, or decimal digits.
\* ok: a number was there; val: its value; next: the first index not taken.
ScanInt(s, i) ==
    LET signed == i <= Len(s) /\ s[i] \in {43, 45}
        neg    == signed /\ s[i] = 45
        j      == IF signed THEN i + 1 ELSE i
        At(k)  == IF k <= Len(s) THEN s[k] ELSE 0
        hex    == At(j) = 48 /\ At(j + 1) \in {120, 88} /\ DigitVal(At(j + 2)) < 16
        base   == IF hex THEN 16 ELSE IF At(j) = 48 THEN 8 ELSE 10
        start  == IF hex THEN j + 2 ELSE j
        a      == Accum(s, start, base, 0, neg)
    IN  [ok |-> a.next > start, val |-> a.val, next |-> a.next]

\* What vsscanf returns when it stops with vals assigned: the input ended
\* (EOF before the first conversion) or a character did not match
ScanStop(vals, ended) ==
    [ret  |-> IF ended /\ vals = <<>> THEN EndOfInput ELSE Len(vals),
     vals |-> vals]

\* vsscanf(text, format, arg) from item fi of the format and character i of
\* the text.  ret: the returned int; vals: the values assigned, in order.
RECURSIVE ScanFrom(_, _, _, _, _)
ScanFrom(fmt, fi, s, i, vals) ==
    IF fi > Len(fmt) THEN ScanStop(vals, FALSE)
    ELSE IF fmt[fi].k = "lit" /\ IsSpace(fmt[fi].c)
    THEN ScanFrom(fmt, fi + 1, s, SkipSpace(s, i), vals)
    ELSE IF fmt[fi].k = "lit"
    THEN IF i > Len(s) THEN ScanStop(vals, TRUE)
         ELSE IF s[i] = fmt[fi].c THEN ScanFrom(fmt, fi + 1, s, i + 1, vals)
         ELSE ScanStop(vals, FALSE)
    ELSE LET j == SkipSpace(s, i)
             p == ScanInt(s, j)
         IN  IF j > Len(s) THEN ScanStop(vals, TRUE)
             ELSE IF p.ok THEN ScanFrom(fmt, fi + 1, s, p.next, Append(vals, p.val))
             ELSE ScanStop(vals, FALSE)

vsscanf(text, fmt) == ScanFrom(fmt, 1, text, 1, <<>>)

\* bool ret = <int>; return ret;  an int goes through a bool
BoolOf(n) == n # 0
IntOf(b) == IF b THEN 1 ELSE 0

\* bool PacketStream::printf(format, ...): vsnprintf measures the text, both
\* branches of the length test render it with vsprintf from the same
\* arguments (the ARM targets of the program pass a va_list by value, so the
\* second pass starts at the first argument again) and write its len
\* characters as one packet
printf(pos, buf, io, fmt, args, modes) ==
    write(pos, buf, io, Render(fmt, args), modes)

\* uint8_t buf[64 + 1], not initialised: every cell holds junk
ScanBuf(junk) == [k \in 0..ScanCap |-> junk]

\* A slip: the zero lands on the last character
Terminated_DropsLast(data, actual, stack) ==
    LET cells == [k \in 1..(ScanCap + 1) |-> data[k - 1]]
    IN  IF actual = 0 THEN <<>>
        ELSE CStr([cells EXCEPT ![Min(actual, ScanCap)] = 0])

\* buf[actual] = 0, and the string vsscanf then sees at buf.  An actual above
\* 64 puts the zero past the array (oob): buf[64] keeps its junk and the
\* string runs on into the memory after the array (stack, which ends in a
\* zero of its own), with the written zero at stack[actual - 64] if that is
\* inside.
Terminated(data, actual, stack) ==
    LET cells == [k \in 1..(ScanCap + 1) |-> data[k - 1]]
    IN  IF actual <= ScanCap
        THEN CStr([cells EXCEPT ![actual + 1] = 0])
        ELSE CStr(cells \o [k \in 1..Len(stack) |->
                               IF k = actual - ScanCap THEN 0 ELSE stack[k]])

\* int PacketStream::scanf(format, ...)
\* ret: the returned int; vals: the values assigned through the arguments;
\* scan: what vsscanf returned (none when read failed); r: the read call.
scanf(zero, pad, io, fmt, failAt, junk, stack) ==
    LET r == read(zero, pad, io, ScanBuf(junk), ScanCap, 0, failAt)
    IN  IF ~r.ret
        THEN [ret |-> 0, vals |-> <<>>, scan |-> <<>>, text |-> <<>>,
              oob |-> FALSE, r |-> r]
        ELSE LET text == Terminated(r.data, r.actual, stack)
                 v    == vsscanf(text, fmt)
             IN  [ret |-> IntOf(BoolOf(v.ret)), vals |-> v.vals, scan |-> <<v.ret>>,
                  text |-> text, oob |-> r.actual > ScanCap, r |-> r]

----------------------------------------------------------------------------
(* Inputs *)

\* Number of PacketStream calls in one run
MaxOps == 4

\* The writer starts a packet only while the transport holds at most this
\* many bytes
MaxWire == 8

\* A caller's buffer too small for most packets
SmallCap == 2

\* uint8_t actual_decoded[512]
BigCap == 512

\* actual_size = 0xFFFFFFFF before a read: (size_t)-1, the length of no packet
Unset == -1

\* decodedN[i] = i + start, as uint8_t
Ramp(start, n) == [i \in 1..n |-> (i - 1 + start) % Byte]

\* n bytes none of which is zero
NonZero(n) == [i \in 1..n |-> ((i - 1) % (Byte - 1)) + 1]

\* decoded0..decoded4 and the empty payload of get_test_vector
ShortVectors ==
    { <<>>, <<0>>, <<0, 0>>, <<17, 34, 0, 51>>, <<17, 34, 51, 68>>, <<17, 0, 0, 0>> }

\* decoded5..decoded9 of get_test_vector
LongVectors ==
    { Ramp(1, BlockMax - 1), Ramp(0, BlockMax), Ramp(1, BlockMax),
      Ramp(2, BlockMax), Ramp(3, BlockMax) }

\* Payloads that fill two blocks of 255: one byte short, exactly, one byte over
TwoBlocks == { NonZero(n) : n \in (2 * BlockMax - 3)..(2 * BlockMax - 1) }

\* The long payloads are written to a fresh stream only
PayloadsAt(n) ==
    IF n = 0 THEN ShortVectors \cup LongVectors \cup TwoBlocks ELSE ShortVectors

\* The caller's memory at data[0 .. size]: the buffer of capacity size and the
\* cell that follows it
FreshMem(size) == [k \in 0..size |-> 238]

\* _tx_buf is not initialised by the constructor beyond _tx_buf[0]
InitBufs == { [k \in 1..TxBufSize |-> IF k = 1 THEN 0 ELSE junk] : junk \in {0, 165} }

----------------------------------------------------------------------------
(* State machine *)

\* PacketStream::PacketStream(io)
Init ==
    /\ tx_pos = 1
    /\ tx_buf \in InitBufs
    /\ rx_next_zero = 1
    /\ rx_next_pad = TRUE
    /\ wire = <<>>
    /\ call = [op |-> "none"]
    /\ rx_last = "none"
    /\ sent = <<>>
    /\ nops = 0
    /\ wctx = [pc |-> "idle"]
    /\ rctx = [pc |-> "idle"]
    /\ cobs_errors = 0
    /\ unknown_commands = 0

\* serial.write(P, |P|), the transport answering its writes by modes
DoWrite(P, modes) ==
    /\ nops < MaxOps
    /\ Len(wire) <= MaxWire
    /\ \E e \in {write(tx_pos, tx_buf, wire, P, modes)} :
        /\ tx_pos' = e.pos
        /\ tx_buf' = e.buf
        /\ wire' = e.io
        /\ call' = [op |-> "write", data |-> P, ret |-> e.success, log |-> e.log]
        /\ nops' = nops + 1
        /\ UNCHANGED <<rx_next_zero, rx_next_pad, rx_last, others>>

\* serial.read(data, size, &actual), the failAt-th transport read failing
DoRead(size, failAt) ==
    /\ nops < MaxOps
    /\ \E r \in {read(rx_next_zero, rx_next_pad, wire, FreshMem(size), size, Unset, failAt)} :
        /\ rx_next_zero' = r.d.zero
        /\ rx_next_pad' = r.d.pad
        /\ wire' = r.d.io
        /\ call' = [op |-> "read", size |-> size, ret |-> r.ret, actual |-> r.actual,
                    data |-> r.data, status |-> r.status, taken |-> r.d.taken,
                    nread |-> r.d.nread, depth |-> r.d.depth, least |-> r.d.least,
                    out |-> r.out,
                    zero0 |-> rx_next_zero, pad0 |-> rx_next_pad, prev |-> rx_last,
                    expect |-> IF sent = <<>> THEN <<>> ELSE <<Head(sent)>>]
        /\ rx_last' = r.status
        /\ nops' = nops + 1
        /\ UNCHANGED <<tx_pos, tx_buf, others>>

\* Loopback: write over a lossless transport
LoopWrite ==
    \E P \in PayloadsAt(nops) :
        /\ DoWrite(P, <<>>)
        /\ sent' = Append(sent, P)

\* Loopback: read with a small or a large buffer
LoopRead ==
    \E size \in {SmallCap, BigCap} :
        /\ DoRead(size, 0)
        /\ sent' = IF sent = <<>> THEN sent ELSE Tail(sent)

Next == LoopWrite \/ LoopRead

\* self_test's loopback: PacketStream loopback(&loop_mock), writes and reads
Spec == Init /\ [][Next]_vars

----------------------------------------------------------------------------
(* The same stream over a transport that fails, with a peer that sends what
   it likes *)

\* Number of calls in one run over the failing transport
FaultOps == 3

\* The transport write that fails is among the first MaxFailIdx of a call
MaxFailIdx == 2

\* The transport read that fails is among the first MaxFailAt of a call
MaxFailAt == 2

\* One transport write of the call fails or comes back short, or none does
Modes ==
    {<<>>} \cup { (k :> m) : k \in 1..MaxFailIdx, m \in {"error", "short"} }

\* Payloads written over the failing transport: the long ones need an overhead
\* flush, and are written to a fresh stream only
FaultPayloadsAt(n) ==
    {<<>>, <<0>>, <<17, 34, 0, 51>>}
        \cup (IF n = 0 THEN {Ramp(1, BlockMax), Ramp(2, BlockMax)} ELSE {})

\* mock.read_set_next(buffer, size): bytes the peer puts on the line; whole
\* frames, malformed frames, frames cut short
RawBytes ==
    { <<0>>, <<1, 0>>, <<1, 1, 0>>, <<1, 2, 0>>, <<2, 0>>, <<3, 17, 0>>,
      <<3, 17>>, <<1, 2, 0, 1, 1, 0>>, <<3, 17, 0, 3, 17, 34, 0>> }

FaultWrite ==
    \E P \in FaultPayloadsAt(nops), modes \in Modes :
        /\ nops < FaultOps
        /\ DoWrite(P, modes)
        /\ UNCHANGED sent

FaultRead ==
    \E failAt \in 0..MaxFailAt :
        /\ nops < FaultOps
        /\ DoRead(SmallCap, failAt)
        /\ UNCHANGED sent

PeerSend ==
    \E raw \in RawBytes :
        /\ nops < FaultOps
        /\ Len(wire) <= MaxWire
        /\ wire' = wire \o raw
        /\ call' = [op |-> "peer", bytes |-> raw]
        /\ nops' = nops + 1
        /\ UNCHANGED <<tx_pos, tx_buf, rx_next_zero, rx_next_pad, rx_last, sent, others>>

NextFault == FaultWrite \/ FaultRead \/ PeerSend

SpecFault == Init /\ [][NextFault]_vars

----------------------------------------------------------------------------
(* The formatted layer over the loopback transport, with a peer that sends
   packets of text *)

\* Number of calls in one run of the formatted layer
TextOps == 2

\* "%i" (RemoteFile.h, main.cpp)
FmtInt == <<ConvI>>

\* "Number is %i" (self_test)
FmtNumberIs ==
    <<Lit(78), Lit(117), Lit(109), Lit(98), Lit(101), Lit(114), Lit(32),
      Lit(105), Lit(115), Lit(32), ConvI>>

\* "seek,%i,%i" (RemoteFile.h)
FmtSeek ==
    <<Lit(115), Lit(101), Lit(101), Lit(107), Lit(44), ConvI, Lit(44), ConvI>>

Formats == {FmtInt, FmtNumberIs, FmtSeek}

\* The number of %i in a format
Conversions(fmt) == Cardinality({k \in 1..Len(fmt) : fmt[k].k = "int"})

\* int src_num = rand(): some ints, the ends of the range among them
TextInts == {0, 7, -1, 42, -305, 1804289383, IntMax, IntMin}

\* The arguments a format is printed with
ArgsOf(fmt) ==
    IF Conversions(fmt) = 1 THEN {<<n>> : n \in TextInts}
    ELSE {<<3, 4>>, <<-1, 0>>, <<IntMin, IntMax>>}

\* A 66-character text: 64 blanks, then "58"
LongText == [k \in 1..(ScanCap + 2) |-> IF k <= ScanCap THEN 32 ELSE IF k = ScanCap + 1 THEN 53 ELSE 56]

\* Payloads the peer sends: "", "12", "abc", "0x1F", "010", " -7", "12" with
\* a zero byte and "9" behind it, "Number is", "Number is 5", "seek,3,",
\* "seek,3,4", and the long text
PeerTexts ==
    { <<>>, <<49, 50>>, <<97, 98, 99>>, <<48, 120, 49, 70>>, <<48, 49, 48>>,
      <<32, 45, 55>>, <<49, 50, 0, 57>>,
      <<78, 117, 109, 98, 101, 114, 32, 105, 115>>,
      <<78, 117, 109, 98, 101, 114, 32, 105, 115, 32, 53>>,
      <<115, 101, 101, 107, 44, 51, 44>>,
      <<115, 101, 101, 107, 44, 51, 44, 52>>,
      LongText }

\* What the cells of scanf's buffer hold before the call: zeros, or "7"s
Junk == {0, 55}

\* What the memory after scanf's buffer holds: a zero at once, or "99" first
Stacks == {<<0>>, <<57, 57, 0>>}

\* The frame a correct encoder makes of payload P
FrameOf(P) == write(1, [k \in 1..TxBufSize |-> 0], <<>>, P, <<>>).io

\* A call record without the record of the call before it
Flat(c) == [k \in (DOMAIN c) \ {"prev"} |-> c[k]]

\* loopback.printf(format, args)
TextPrintf ==
    \E fmt \in Formats :
        \E args \in ArgsOf(fmt) :
            /\ nops < TextOps
            /\ \E e \in {printf(tx_pos, tx_buf, wire, fmt, args, <<>>)} :
                /\ tx_pos' = e.pos
                /\ tx_buf' = e.buf
                /\ wire' = e.io
                /\ call' = [op |-> "printf", fmt |-> fmt, args |-> args,
                            ret |-> e.success, log |-> e.log, wire0 |-> wire]
            /\ nops' = nops + 1
            /\ UNCHANGED <<rx_next_zero, rx_next_pad, rx_last, sent, others>>

\* loopback.scanf(format, &...)
TextScanf ==
    \E fmt \in Formats, junk \in Junk, stack \in Stacks :
        /\ nops < TextOps
        /\ \E c \in {scanf(rx_next_zero, rx_next_pad, wire, fmt, 0, junk, stack)} :
            /\ rx_next_zero' = c.r.d.zero
            /\ rx_next_pad' = c.r.d.pad
            /\ wire' = c.r.d.io
            /\ call' = [op |-> "scanf", fmt |-> fmt, ret |-> c.ret, vals |-> c.vals,
                        scan |-> c.scan, text |-> c.text, oob |-> c.oob,
                        decoded |-> c.r.ret, status |-> c.r.status,
                        actual |-> c.r.actual, taken |-> c.r.d.taken,
                        prev |-> Flat(call)]
            /\ rx_last' = c.r.status
        /\ nops' = nops + 1
        /\ UNCHANGED <<tx_pos, tx_buf, sent, others>>

\* The peer sends a packet of text, or the malformed frame 01 02 00
PeerText ==
    \E raw \in {FrameOf(P) : P \in PeerTexts} \cup {<<1, 2, 0>>} :
        /\ nops < TextOps
        /\ wire' = wire \o raw
        /\ call' = [op |-> "peer", bytes |-> raw]
        /\ nops' = nops + 1
        /\ UNCHANGED <<tx_pos, tx_buf, rx_next_zero, rx_next_pad, rx_last, sent, others>>

NextText == TextPrintf \/ TextScanf \/ PeerText

SpecText == Init /\ [][NextText]_vars

----------------------------------------------------------------------------
(* One context inside write and another inside read, on one PacketStream over
   a duplex transport: wire is the receiving direction, the sending direction
   is kept with the writer.  Each context moves one statement group at a time. *)

\* Number of calls entered in one run
DuplexOps == 2

\* Payloads of the writer while a reader is about
DuplexPayloads == {<<>>, <<0>>, <<17, 34, 0, 51>>}

\* The PacketStream object as a record of its members
This ==
    [tx_pos |-> tx_pos, tx_buf |-> tx_buf,
     rx_next_zero |-> rx_next_zero, rx_next_pad |-> rx_next_pad]

\* A slip: what resets the encoder resets the decoder with it
EncoderMembers_AndDecoder(obj, e) ==
    [obj EXCEPT !.tx_pos = e.pos, !.tx_buf = e.buf,
                !.rx_next_zero = 1, !.rx_next_pad = TRUE]

\* The members _cobs_write assigns: _tx_pos and _tx_buf
EncoderMembers(obj, e) == [obj EXCEPT !.tx_pos = e.pos, !.tx_buf = e.buf]

\* The members _cobs_getc assigns: _rx_next_zero and _rx_next_pad
DecoderMembers(obj, d) == [obj EXCEPT !.rx_next_zero = d.zero, !.rx_next_pad = d.pad]

\* The object after a step
SetThis(obj) ==
    /\ tx_pos' = obj.tx_pos
    /\ tx_buf' = obj.tx_buf
    /\ rx_next_zero' = obj.rx_next_zero
    /\ rx_next_pad' = obj.rx_next_pad

\* The running state of _cobs_write as the encoder operators take it
WriterState ==
    [pos |-> tx_pos, buf |-> tx_buf, io |-> wctx.io,
     success |-> wctx.success, log |-> wctx.log]

\* A writer step that leaves e, at statement group pc with loop index i
WriterMoves(e, pc, i) ==
    /\ \E obj \in {EncoderMembers(This, e)} : SetThis(obj)
    /\ wctx' = [wctx EXCEPT !.pc = pc, !.i = i, !.io = e.io,
                            !.success = e.success, !.log = e.log]
    /\ UNCHANGED <<wire, call, rx_last, sent, nops, rctx, cobs_errors, unknown_commands>>

\* write(P, |P|) is entered: bool success = true; i = 0
WriterEnter(P) ==
    /\ wctx.pc = "idle"
    /\ wctx' = [pc |-> IF P = <<>> THEN "last" ELSE "overhead", data |-> P, i |-> 1,
                io |-> <<>>, success |-> TRUE, log |-> <<>>,
                pos0 |-> tx_pos, buf0 |-> tx_buf]
    /\ nops' = nops + 1
    /\ UNCHANGED <<tx_pos, tx_buf, rx_next_zero, rx_next_pad, wire, call, rx_last,
                   sent, rctx, cobs_errors, unknown_commands>>

WriterCall ==
    \E P \in DuplexPayloads :
        /\ nops < DuplexOps
        /\ WriterEnter(P)

\* Flush and stuff if not enough zeros
WriterOverhead ==
    /\ wctx.pc = "overhead"
    /\ \E e \in {FlushOverhead(WriterState, <<>>)} : WriterMoves(e, "zero", wctx.i)

\* Escape and flush if zero
WriterZero ==
    /\ wctx.pc = "zero"
    /\ \E e \in {FlushZero(WriterState, wctx.data[wctx.i], <<>>)} :
           WriterMoves(e, "add", wctx.i)

\* Add byte; i++; i < size
WriterAdd ==
    /\ wctx.pc = "add"
    /\ \E e \in {AddByte(WriterState, wctx.data[wctx.i])} :
           WriterMoves(e, IF wctx.i < Len(wctx.data) THEN "overhead" ELSE "last",
                       wctx.i + 1)

\* if (last) { ... }
WriterLast ==
    /\ wctx.pc = "last"
    /\ \E e \in {CobsWriteLast(WriterState, <<>>)} : WriterMoves(e, "done", wctx.i)

\* return success
WriterReturn ==
    /\ wctx.pc = "done"
    /\ wctx' = [pc |-> "idle"]
    /\ call' = [op |-> "write", data |-> wctx.data, ret |-> wctx.success,
                log |-> wctx.log]
    /\ UNCHANGED <<tx_pos, tx_buf, rx_next_zero, rx_next_pad, wire, rx_last, sent,
                   nops, rctx, cobs_errors, unknown_commands>>

\* The running state of read as ReadStep takes it
ReaderState ==
    [status |-> rctx.status, pos |-> rctx.pos, data |-> rctx.data,
     size |-> rctx.size, actual |-> rctx.actual, ret |-> rctx.ret,
     out |-> rctx.out,
     d |-> [zero |-> rx_next_zero, pad |-> rx_next_pad, io |-> wire,
            nread |-> rctx.nread, failAt |-> 0, taken |-> rctx.taken,
            depth |-> rctx.depth, least |-> rctx.least]]

\* read(data, size, &actual) is entered: size_t pos = 0
ReaderCall ==
    /\ rctx.pc = "idle"
    /\ nops < DuplexOps
    /\ rctx' = [pc |-> "getc", status |-> DecodingContinue, pos |-> 0,
                data |-> FreshMem(SmallCap), size |-> SmallCap, actual |-> Unset,
                ret |-> FALSE, out |-> <<>>, nread |-> 0, taken |-> <<>>, depth |-> 0,
                least |-> Byte,
                zero0 |-> rx_next_zero, pad0 |-> rx_next_pad, wire0 |-> wire,
                wpc0 |-> wctx.pc, wi0 |-> IF wctx.pc = "idle" THEN 0 ELSE wctx.i]
    /\ nops' = nops + 1
    /\ UNCHANGED <<tx_pos, tx_buf, rx_next_zero, rx_next_pad, wire, call, rx_last,
                   sent, wctx, cobs_errors, unknown_commands>>

\* status = _cobs_getc(&val) and what the loop does with it
ReaderGetc ==
    /\ rctx.pc = "getc"
    /\ \E r \in {ReadStep(ReaderState)} :
        /\ \E obj \in {DecoderMembers(This, r.d)} : SetThis(obj)
        /\ wire' = r.d.io
        /\ rctx' = [rctx EXCEPT !.pc = IF r.status = DecodingContinue THEN "getc" ELSE "done",
                                !.status = r.status, !.pos = r.pos, !.data = r.data,
                                !.actual = r.actual, !.ret = r.ret, !.out = r.out,
                                !.nread = r.d.nread, !.taken = r.d.taken,
                                !.depth = r.d.depth, !.least = r.d.least]
    /\ UNCHANGED <<call, rx_last, sent, nops, wctx, cobs_errors, unknown_commands>>

\* return true / return false
ReaderReturn ==
    /\ rctx.pc = "done"
    /\ rctx' = [pc |-> "idle"]
    /\ call' = [op |-> "read", size |-> rctx.size, ret |-> rctx.ret,
                actual |-> rctx.actual, data |-> rctx.data, status |-> rctx.status,
                taken |-> rctx.taken, nread |-> rctx.nread, depth |-> rctx.depth,
                out |-> rctx.out, zero0 |-> rctx.zero0, pad0 |-> rctx.pad0, prev |-> rx_last,
                expect |-> <<>>]
    /\ rx_last' = rctx.status
    /\ UNCHANGED <<tx_pos, tx_buf, rx_next_zero, rx_next_pad, wire, sent, nops, wctx,
                   cobs_errors, unknown_commands>>

\* What the peer sends in the receiving direction: a frame, or a malformed
\* frame and a frame
DuplexRaw == { <<2, 17, 0>>, <<1, 2, 0, 1, 1, 0>> }

\* The peer sends while no read is under way and the transport is empty
DuplexPeer ==
    \E raw \in DuplexRaw :
        /\ rctx.pc = "idle"
        /\ nops < DuplexOps
        /\ wire = <<>>
        /\ wire' = raw
        /\ UNCHANGED <<tx_pos, tx_buf, rx_next_zero, rx_next_pad, call, rx_last, sent,
                       nops, wctx, rctx, cobs_errors, unknown_commands>>

NextDuplex ==
    \/ WriterCall \/ WriterOverhead \/ WriterZero \/ WriterAdd \/ WriterLast
    \/ WriterReturn
    \/ ReaderCall \/ ReaderGetc \/ ReaderReturn
    \/ DuplexPeer

SpecDuplex == Init /\ [][NextDuplex]_vars

\* A context inside a call goes on running: neither call waits for anything
\* but the transport, which answers every read and write
WriterRuns == WriterOverhead \/ WriterZero \/ WriterAdd \/ WriterLast

SpecDuplexFair == SpecDuplex /\ WF_vars(WriterRuns) /\ WF_vars(ReaderGetc)

----------------------------------------------------------------------------
(* The writer alone, one statement group at a time, with payloads that fill
   blocks *)

\* Number of write calls in one run of the writer alone
EncodeOps == 2

\* Payloads that end on a full block (254 bytes), that need an overhead flush
\* (255 bytes), and that fill two blocks (507..509 bytes); these are written
\* to a fresh stream only
EncodePayloadsAt(n) ==
    IF n = 0
    THEN ShortVectors \cup {Ramp(1, BlockMax - 1), Ramp(1, BlockMax), Ramp(0, BlockMax)}
             \cup TwoBlocks
    ELSE ShortVectors

EncodeCall ==
    \E P \in EncodePayloadsAt(nops) :
        /\ nops < EncodeOps
        /\ WriterEnter(P)

NextEncode ==
    \/ EncodeCall \/ WriterOverhead \/ WriterZero \/ WriterAdd \/ WriterLast
    \/ WriterReturn

SpecEncode == Init /\ [][NextEncode]_vars

----------------------------------------------------------------------------
(* One call of _cobs_getc from any decoder state *)

\* The transport holds up to this many bytes
StepLen == 3

\* Byte values that matter to the decoder: the delimiter, the shortest blocks,
\* the longest, and one of the values between
StepBytes == {0, 1, 2, 77, 255}

\* The byte strings of length n over StepBytes
RECURSIVE Strings(_)
Strings(n) ==
    IF n = 0 THEN {<<>>}
    ELSE {Append(t, b) : t \in Strings(n - 1), b \in StepBytes}

\* Any _rx_next_zero, any _rx_next_pad, any bytes on the transport
InitStep ==
    /\ tx_pos = 1
    /\ tx_buf = [k \in 1..TxBufSize |-> 0]
    /\ rx_next_zero \in 0..(Byte - 1)
    /\ rx_next_pad \in BOOLEAN
    /\ wire \in UNION {Strings(n) : n \in 0..StepLen}
    /\ call = [op |-> "none"]
    /\ rx_last = "none"
    /\ sent = <<>>
    /\ nops = 0
    /\ wctx = [pc |-> "idle"]
    /\ rctx = [pc |-> "idle"]
    /\ cobs_errors = 0
    /\ unknown_commands = 0

\* status = _cobs_getc(&val), once
GetcStep ==
    /\ call.op = "none"
    /\ \E c \in {cobs_getc([zero |-> rx_next_zero, pad |-> rx_next_pad, io |-> wire,
                            nread |-> 0, failAt |-> 0, taken |-> <<>>, depth |-> 0,
                            least |-> Byte], 1)} :
        /\ rx_next_zero' = c.d.zero
        /\ rx_next_pad' = c.d.pad
        /\ wire' = c.d.io
        /\ call' = [op |-> "getc", st |-> c.st, val |-> c.val, nread |-> c.d.nread,
                    depth |-> c.d.depth, taken |-> c.d.taken,
                    zero0 |-> rx_next_zero, pad0 |-> rx_next_pad]
    /\ nops' = nops + 1
    /\ UNCHANGED <<tx_pos, tx_buf, rx_last, sent, others>>

NextStep == GetcStep

SpecStep == InitStep /\ [][NextStep]_vars

----------------------------------------------------------------------------
(* main.cpp: the command loop *)

\* Number of peer transmissions and loop iterations in one run
MainOps == 3

\* pc.read(buf, sizeof(buf) - 1, &actual) with uint8_t buf[64]
MainCap == 63

\* command_t *command = NULL
NoCommand == 0

\* command_t commands[]: "version", "dump_all", "dump", "update", "reload",
\* "baud", "stats"
commands ==
    << [name |-> <<118, 101, 114, 115, 105, 111, 110>>, handler |-> "version_handler"],
       [name |-> <<100, 117, 109, 112, 95, 97, 108, 108>>, handler |-> "dump_all_handler"],
       [name |-> <<100, 117, 109, 112>>, handler |-> "dump_handler"],
       [name |-> <<117, 112, 100, 97, 116, 101>>, handler |-> "update_handler"],
       [name |-> <<114, 101, 108, 111, 97, 100>>, handler |-> "reload_handler"],
       [name |-> <<98, 97, 117, 100>>, handler |-> "baud_handler"],
       [name |-> <<115, 116, 97, 116, 115>>, handler |-> "stats_handler"] >>

command_count == Len(commands)

\* A slip: the lengths are not compared
Matches_NoLength(buf, actual, name) ==
    \A k \in 1..Min(actual, Len(name)) : buf[k - 1] = name[k]

\* actual == strlen(name) and memcmp(buf, name, actual) == 0
Matches(buf, actual, name) ==
    /\ actual = Len(name)
    /\ \A k \in 1..actual : buf[k - 1] = name[k]

\* for (i = 0; i < command_count; i++): command from entry i on (entries are
\* counted from 1 here), the last match staying
RECURSIVE FindCommand(_, _, _, _)
FindCommand(buf, actual, i, command) ==
    IF i > command_count THEN command
    ELSE FindCommand(buf, actual, i + 1,
                     IF Matches(buf, actual, commands[i].name) THEN i ELSE command)

\* One iteration of while (true) in main.  junk: what the local actual holds
\* before read.  The result: the counters, the handler called ("none" if
\* none is), the statement that follows ("while": the loop has no other way
\* out), and the read call.
main_iteration(zero, pad, io, failAt, junk, errors, unknown) ==
    LET r == The({read(zero, pad, io, [k \in 0..MainCap |-> 0], MainCap, junk, failAt)})
        command == FindCommand(r.data, r.actual, 1, NoCommand)
        quiet == [cobs_errors |-> errors, unknown_commands |-> unknown,
                  handler |-> "none", next |-> "while", r |-> r]
    IN  IF ~r.ret THEN [quiet EXCEPT !.cobs_errors = errors + 1]
        ELSE IF r.actual = 0 THEN quiet
        ELSE IF command # NoCommand
             THEN [quiet EXCEPT !.handler = commands[command].handler]
             ELSE [quiet EXCEPT !.unknown_commands = unknown + 1]

\* A 70-byte payload that starts with "stats"
LongCommand ==
    [k \in 1..(MainCap + 7) |-> IF k <= 5 THEN commands[7].name[k] ELSE 120]

\* Payloads the peer sends: the command names, "", "dum", "dumpx", "stat"
\* and a zero byte, "Dump", and the long one
MainPayloads ==
    {commands[i].name : i \in 1..command_count}
        \cup { <<>>, <<100, 117, 109>>, <<100, 117, 109, 112, 120>>,
               <<115, 116, 97, 116, 0>>, <<68, 117, 109, 112>>, LongCommand }

\* The peer sends a packet, or the malformed frame 01 02 00
MainPeer ==
    \E raw \in {FrameOf(P) : P \in MainPayloads} \cup {<<1, 2, 0>>} :
        /\ nops < MainOps
        /\ wire' = wire \o raw
        /\ call' = [op |-> "peer", bytes |-> raw]
        /\ nops' = nops + 1
        /\ UNCHANGED <<tx_pos, tx_buf, rx_next_zero, rx_next_pad, rx_last, sent,
                       wctx, rctx, cobs_errors, unknown_commands>>

\* One iteration of the loop; the handler it calls is recorded, what the
\* handler itself does (main.cpp:92-148, MbedTester) is not followed
MainIteration ==
    \E failAt \in {0, 3}, junk \in {0, 7} :
        /\ nops < MainOps
        /\ \E m \in {main_iteration(rx_next_zero, rx_next_pad, wire, failAt, junk,
                                    cobs_errors, unknown_commands)} :
            /\ rx_next_zero' = m.r.d.zero
            /\ rx_next_pad' = m.r.d.pad
            /\ wire' = m.r.d.io
            /\ cobs_errors' = m.cobs_errors
            /\ unknown_commands' = m.unknown_commands
            /\ call' = [op |-> "main", good_read |-> m.r.ret, actual |-> m.r.actual,
                        status |-> m.r.status, out |-> m.r.out, taken |-> m.r.d.taken,
                        handler |-> m.handler, next |-> m.next,
                        errors0 |-> cobs_errors, unknown0 |-> unknown_commands]
            /\ rx_last' = m.r.status
        /\ nops' = nops + 1
        /\ UNCHANGED <<tx_pos, tx_buf, sent, wctx, rctx>>

NextMain == MainPeer \/ MainIteration

SpecMain == Init /\ [][NextMain]_vars

----------------------------------------------------------------------------
(* RemoteFile.h: file operations as packets on a stream.  The transport is
   duplex: what the stream writes goes to the peer and is kept per call;
   wire holds what the peer has sent and the stream has not read yet. *)

\* Number of peer transmissions and RemoteFile calls in one run
RemoteOps == 2

\* int ret = -1
NoReply == -1

\* "read,%i"
FmtRead == <<Lit(114), Lit(101), Lit(97), Lit(100), Lit(44), ConvI>>

\* "write"
FmtWrite == <<Lit(119), Lit(114), Lit(105), Lit(116), Lit(101)>>

\* "close"
FmtClose == <<Lit(99), Lit(108), Lit(111), Lit(115), Lit(101)>>

\* The stream as a RemoteFile operation sees it at its start: the members
\* of *_stream, the received bytes, and no call made yet
StreamAt(pos, buf, zero, pad, io) ==
    [pos |-> pos, buf |-> buf, zero |-> zero, pad |-> pad, io |-> io,
     last |-> "none", events |-> <<>>, written |-> 0]

\* One call made on the stream: the bytes it sent, the bytes it took, and
\* how many bytes the operation had sent when the call began
Event(s, name, bytes, taken) ==
    [call |-> name, sent |-> bytes, taken |-> taken, before |-> s.written]

\* _stream->printf(format, ...)
StreamPrintf(s, fmt, args) ==
    The({ [s EXCEPT !.pos = e.pos, !.buf = e.buf,
                    !.written = s.written + Len(e.io),
                    !.events = Append(s.events, Event(s, "printf", e.io, <<>>))]
          : e \in {printf(s.pos, s.buf, <<>>, fmt, args, <<>>)} })

\* _stream->write(buffer, size)
StreamWrite(s, data) ==
    The({ [s EXCEPT !.pos = e.pos, !.buf = e.buf,
                    !.written = s.written + Len(e.io),
                    !.events = Append(s.events, Event(s, "write", e.io, <<>>))]
          : e \in {write(s.pos, s.buf, <<>>, data, <<>>)} })

\* The stream after a read call r
AfterRead(s, name, r) ==
    [s EXCEPT !.zero = r.d.zero, !.pad = r.d.pad, !.io = r.d.io, !.last = r.status,
              !.events = Append(s.events, Event(s, name, <<>>, r.d.taken))]

\* A slip: the response is awaited before the data packet is sent
remote_write_AckFirst(s0, data, failAt, junk) ==
    LET s1 == StreamPrintf(s0, FmtWrite, <<>>)
        c  == The({scanf(s1.zero, s1.pad, s1.io, FmtInt, failAt, junk, <<0>>)})
        s2 == StreamWrite(AfterRead(s1, "scanf", c.r), data)
    IN  [s |-> s2, ret |-> IF c.vals = <<>> THEN NoReply ELSE c.vals[1],
         parsed |-> c.vals, good |-> c.r.ret]

\* ssize_t RemoteFile::read(buffer, size); junk: what the local actual holds
\* before the read.  ret: the returned value; good: what _stream->read gave.
remote_read(s0, size, failAt, junk) ==
    LET s1 == StreamPrintf(s0, FmtRead, <<size>>)
        r  == The({read(s1.zero, s1.pad, s1.io, FreshMem(size), size, junk, failAt)})
    IN  [s |-> AfterRead(s1, "read", r), ret |-> r.actual, parsed |-> r.out,
         good |-> r.ret]

\* ssize_t RemoteFile::write(buffer, size); junk: what scanf's buffer holds
\* before the read.  parsed: what scanf assigned to ret.
remote_write(s0, data, failAt, junk) ==
    LET s1 == StreamWrite(StreamPrintf(s0, FmtWrite, <<>>), data)
        c  == The({scanf(s1.zero, s1.pad, s1.io, FmtInt, failAt, junk, <<0>>)})
    IN  [s |-> AfterRead(s1, "scanf", c.r),
         ret |-> IF c.vals = <<>> THEN NoReply ELSE c.vals[1],
         parsed |-> c.vals, good |-> c.r.ret]

\* The request packet of fmt and args, then scanf("%i", &ret)
Transact(s0, fmt, args, failAt, junk) ==
    LET s1 == StreamPrintf(s0, fmt, args)
        c  == The({scanf(s1.zero, s1.pad, s1.io, FmtInt, failAt, junk, <<0>>)})
    IN  [s |-> AfterRead(s1, "scanf", c.r),
         ret |-> IF c.vals = <<>> THEN NoReply ELSE c.vals[1],
         parsed |-> c.vals, good |-> c.r.ret]

\* off_t RemoteFile::seek(offset, whence)
remote_seek(s0, offset, whence, failAt, junk) ==
    Transact(s0, FmtSeek, <<offset, whence>>, failAt, junk)

\* int RemoteFile::close()
remote_close(s0, failAt, junk) == Transact(s0, FmtClose, <<>>, failAt, junk)

\* Payloads the peer answers with: "0", "-1", "12", "abc", "", and the data
\* 11 22 00 33
RemoteReplies ==
    { <<48>>, <<45, 49>>, <<49, 50>>, <<97, 98, 99>>, <<>>, <<17, 34, 0, 51>> }

\* The state a RemoteFile operation leaves, and its record
RemoteDone(op, args, x) ==
    /\ tx_pos' = x.s.pos
    /\ tx_buf' = x.s.buf
    /\ rx_next_zero' = x.s.zero
    /\ rx_next_pad' = x.s.pad
    /\ wire' = x.s.io
    /\ rx_last' = x.s.last
    /\ call' = [op |-> op, args |-> args, ret |-> x.ret, parsed |-> x.parsed,
                good |-> x.good, events |-> x.s.events, written |-> x.s.written,
                wire0 |-> wire]
    /\ nops' = nops + 1
    /\ UNCHANGED <<sent, others>>

\* file.read(buffer, size)
RemoteRead ==
    \E size \in {0, 2, 4}, failAt \in {0, 2}, junk \in {0, 7} :
        /\ nops < RemoteOps
        /\ \E x \in {remote_read(StreamAt(tx_pos, tx_buf, rx_next_zero, rx_next_pad, wire),
                                 size, failAt, junk)} :
               RemoteDone("read", <<size>>, x)

\* file.write(buffer, size)
RemoteWrite ==
    \E data \in {<<>>, <<17, 0>>}, failAt \in {0, 2}, junk \in Junk :
        /\ nops < RemoteOps
        /\ \E x \in {remote_write(StreamAt(tx_pos, tx_buf, rx_next_zero, rx_next_pad, wire),
                                  data, failAt, junk)} :
               RemoteDone("write", <<data>>, x)

\* file.seek(offset, whence)
RemoteSeek ==
    \E offset \in {0, 3}, whence \in {0, 2}, failAt \in {0, 2}, junk \in Junk :
        /\ nops < RemoteOps
        /\ \E x \in {remote_seek(StreamAt(tx_pos, tx_buf, rx_next_zero, rx_next_pad, wire),
                                 offset, whence, failAt, junk)} :
               RemoteDone("seek", <<offset, whence>>, x)

\* file.close()
RemoteClose ==
    \E failAt \in {0, 2}, junk \in Junk :
        /\ nops < RemoteOps
        /\ \E x \in {remote_close(StreamAt(tx_pos, tx_buf, rx_next_zero, rx_next_pad, wire),
                                  failAt, junk)} :
               RemoteDone("close", <<>>, x)

\* The peer sends a reply, or the malformed frame 01 02 00
RemotePeer ==
    \E raw \in {FrameOf(P) : P \in RemoteReplies} \cup {<<1, 2, 0>>} :
        /\ nops < RemoteOps
        /\ wire' = wire \o raw
        /\ call' = [op |-> "peer", bytes |-> raw]
        /\ nops' = nops + 1
        /\ UNCHANGED <<tx_pos, tx_buf, rx_next_zero, rx_next_pad, rx_last, sent, others>>

NextRemote == RemoteRead \/ RemoteWrite \/ RemoteSeek \/ RemoteClose \/ RemotePeer

SpecRemote == Init /\ [][NextRemote]_vars

----------------------------------------------------------------------------
(* get_test_vector: the frames the self test expects *)

\* encoded5: FF 01 02 ... FE 00
Encoded5 ==
    [i \in 0..BlockMax |->
        IF i = 0 THEN 255 ELSE IF i = BlockMax THEN 0 ELSE i % Byte]

\* encoded6: 01 FF 01 02 ... FE 00
Encoded6 ==
    [i \in 0..(BlockMax + 1) |->
        IF i = 0 THEN 1 ELSE IF i = 1 THEN 255
        ELSE IF i = BlockMax + 1 THEN 0 ELSE (i - 1) % Byte]

\* encoded7: FF 01 02 ... FE 02 FF 00
Encoded7 ==
    [i \in 0..(BlockMax + 2) |->
        IF i = 0 THEN 255 ELSE IF i = BlockMax THEN 2
        ELSE IF i = BlockMax + 1 THEN 255
        ELSE IF i = BlockMax + 2 THEN 0 ELSE i % Byte]

\* encoded8: FF 02 03 ... FF 01 01 00
Encoded8 ==
    [i \in 0..(BlockMax + 2) |->
        IF i = 0 THEN 255 ELSE IF i = BlockMax THEN 1
        ELSE IF i = BlockMax + 1 THEN 1
        ELSE IF i = BlockMax + 2 THEN 0 ELSE (i + 1) % Byte]

\* encoded9: FE 03 04 ... FF 02 01 00
Encoded9 ==
    [i \in 0..(BlockMax + 1) |->
        IF i = 0 THEN 254 ELSE IF i = BlockMax - 1 THEN 2
        ELSE IF i = BlockMax THEN 1
        ELSE IF i = BlockMax + 1 THEN 0 ELSE (i + 2) % Byte]

\* A C array a[0 .. n-1] as a sequence
AsSeq(a) == [k \in 1..Cardinality(DOMAIN a) |-> a[k - 1]]

\* test_vectors[0..4] and [10]
ShortTestVectors ==
    { [decoded |-> <<0>>,              encoded |-> <<1, 1, 0>>],
      [decoded |-> <<0, 0>>,           encoded |-> <<1, 1, 1, 0>>],
      [decoded |-> <<17, 34, 0, 51>>,  encoded |-> <<3, 17, 34, 2, 51, 0>>],
      [decoded |-> <<17, 34, 51, 68>>, encoded |-> <<5, 17, 34, 51, 68, 0>>],
      [decoded |-> <<17, 0, 0, 0>>,    encoded |-> <<2, 17, 1, 1, 1, 0>>],
      [decoded |-> <<>>,               encoded |-> <<1, 0>>] }

\* test_vectors[5..9]
LongTestVectors ==
    { [decoded |-> Ramp(1, BlockMax - 1), encoded |-> AsSeq(Encoded5)],
      [decoded |-> Ramp(0, BlockMax),     encoded |-> AsSeq(Encoded6)],
      [decoded |-> Ramp(1, BlockMax),     encoded |-> AsSeq(Encoded7)],
      [decoded |-> Ramp(2, BlockMax),     encoded |-> AsSeq(Encoded8)],
      [decoded |-> Ramp(3, BlockMax),     encoded |-> AsSeq(Encoded9)] }

TestVectors == ShortTestVectors \cup LongTestVectors

----------------------------------------------------------------------------
(* Properties *)

\* The bytes of each transport write of a call, in order
LogBytes(log) == [k \in 1..Len(log) |-> log[k].bytes]

\* All bytes a call handed to the transport, in order
RECURSIVE EmittedFrom(_, _)
EmittedFrom(log, k) ==
    IF k > Len(log) THEN <<>> ELSE log[k].bytes \o EmittedFrom(log, k + 1)

Emitted(log) == EmittedFrom(log, 1)

\* data[0 .. n-1] as a sequence
DataPrefix(data, n) == [k \in 1..n |-> data[k - 1]]

IsPrefix(a, b) == Len(a) <= Len(b) /\ SubSeq(b, 1, Len(a)) = a

\* The length bytes of s, the first at index i, lead to the last byte of s
RECURSIVE ChainEndsAtLast(_, _)
ChainEndsAtLast(s, i) ==
    IF i >= Len(s) THEN i = Len(s)
    ELSE s[i] \in 1..BlockMax /\ ChainEndsAtLast(s, i + s[i])

\* The only zero of s is its last byte
OneZeroAtEnd(s) ==
    /\ s # <<>>
    /\ \A k \in 1..Len(s) : (s[k] = 0) <=> (k = Len(s))

\* What the encoder hands to the transport for payload P when it starts from
\* the state the constructor leaves
FreshLog(P) ==
    LogBytes(write(1, [k \in 1..TxBufSize |-> 0], <<>>, P, <<>>).log)

\* C1: over the lossless transport, reading a written payload P into a buffer
\* of capacity >= |P| returns true, sets *actual to |P| and fills the buffer's
\* first |P| bytes with P.
RoundTrip ==
    (call.op = "read" /\ call.expect # <<>> /\ call.size >= Len(call.expect[1]))
        => /\ call.ret
           /\ call.actual = Len(call.expect[1])
           /\ DataPrefix(call.data, Len(call.expect[1])) = call.expect[1]

\* C1 witness: a 255-byte payload that ends in a zero came back whole
RoundTripReached ==
    /\ call.op = "read"
    /\ call.expect = <<Ramp(2, BlockMax)>>
    /\ call.size = BigCap
    /\ call.ret
    /\ call.actual = BlockMax
    /\ DataPrefix(call.data, BlockMax) = Ramp(2, BlockMax)

\* C2: each read returns the oldest payload written and not yet read, one
\* payload per call, and takes from the transport the bytes up to and
\* including the first zero and none after it.
PacketOrder ==
    (call.op = "read" /\ call.expect # <<>>)
        => LET P == call.expect[1]
               n == Min(Len(P), call.size)
           IN  /\ call.ret
               /\ call.actual = Len(P)
               /\ DataPrefix(call.data, n) = SubSeq(P, 1, n)
               /\ OneZeroAtEnd(call.taken)
               /\ call.nread = Len(call.taken)

\* C2 witness: with two different packets in flight a read returned the older
\* one and left the newer
PacketOrderReached ==
    /\ call.op = "read"
    /\ call.expect # <<>>
    /\ sent # <<>>
    /\ call.expect[1] # sent[1]
    /\ call.ret
    /\ call.actual = Len(call.expect[1])
    /\ wire # <<>>

\* C3: the bytes one write call hands to the transport hold exactly one zero,
\* the last byte; every length byte is in 1..255 and is one more than the
\* number of data bytes that follow it in its block.
FrameWellFormed ==
    (call.op = "write")
        => LET s == Emitted(call.log)
           IN  /\ Len(s) >= 2
               /\ OneZeroAtEnd(s)
               /\ ChainEndsAtLast(s, 1)

\* C3 witness: a payload of two full blocks was written
FrameWellFormedReached ==
    /\ call.op = "write"
    /\ call.data = NonZero(2 * BlockMax - 2)
    /\ Emitted(call.log)[1] = BlockMax
    /\ Emitted(call.log)[BlockMax + 1] = BlockMax

\* C4: for each vector of the self test, write emits exactly the expected
\* frame and nothing else.
VectorsExact ==
    (call.op = "write")
        => \A v \in TestVectors :
               (call.data = v.decoded) => (Emitted(call.log) = v.encoded)

\* C4 witness: the vector 03..FF,00,01 was written
VectorsExactReached ==
    /\ call.op = "write"
    /\ call.data = Ramp(3, BlockMax)
    /\ Emitted(call.log) = AsSeq(Encoded9)

\* C5: a read that takes a zero byte returns true exactly when that zero
\* arrives where a length byte is expected, and fails with a protocol error
\* otherwise; 01 02 00 yields false.
ZeroPlacement ==
    (call.op = "read" /\ call.taken # <<>> /\ call.taken[Len(call.taken)] = 0)
        => /\ call.ret <=> ChainEndsAtLast(call.taken, call.zero0)
           /\ call.status = (IF call.ret THEN DecodingDone ELSE DecodingCobsError)
           /\ (call.taken = <<1, 2, 0>> /\ call.zero0 = 1) => ~call.ret

\* C5 witness: 01 02 00 was read and refused
ZeroPlacementReached ==
    /\ call.op = "read"
    /\ call.taken = <<1, 2, 0>>
    /\ call.zero0 = 1
    /\ call.status = DecodingCobsError
    /\ ~call.ret

\* C6: the read that follows a read ended by a zero byte, misplaced (protocol
\* error) or not, decodes a well-formed frame at the head of the transport to
\* that frame's payload, whatever came before that zero.
Resync ==
    (call.op = "read" /\ call.prev \in {DecodingCobsError, DecodingDone}
        /\ call.nread = Len(call.taken))
        => \A v \in ShortTestVectors :
               IsPrefix(v.encoded, call.taken \o wire)
                   => /\ call.ret
                      /\ call.actual = Len(v.decoded)
                      /\ call.taken = v.encoded
                      /\ DataPrefix(call.data, Min(Len(v.decoded), call.size))
                             = SubSeq(v.decoded, 1, Min(Len(v.decoded), call.size))

\* C6 witness: after a protocol error, 01 01 00 was read as {00}
ResyncReached ==
    /\ call.op = "read"
    /\ call.prev = DecodingCobsError
    /\ call.taken = <<1, 1, 0>>
    /\ call.ret
    /\ call.actual = 1
    /\ call.data[0] = 0

\* C7: whenever read returns, with Done, ProtocolError or TransportError, the
\* decoder is back at its initial state (remaining 1, pending-overhead true).
DecoderResetOnReturn ==
    (call.op = "read") => (rx_next_zero = 1 /\ rx_next_pad = TRUE)

\* C8: a read with capacity size smaller than the payload length L returns
\* true, sets *actual to L, stores the first size bytes and writes nothing at
\* data[size] or beyond.
Truncation ==
    (call.op = "read" /\ call.expect # <<>> /\ call.size < Len(call.expect[1]))
        => /\ call.ret
           /\ call.actual = Len(call.expect[1])
           /\ DataPrefix(call.data, call.size) = SubSeq(call.expect[1], 1, call.size)
           /\ \A i \in DOMAIN call.data : i >= call.size => call.data[i] = FreshMem(call.size)[i]

\* C8 witness: a 254-byte payload was read into the small buffer
TruncationReached ==
    /\ call.op = "read"
    /\ call.expect = <<Ramp(1, BlockMax - 1)>>
    /\ call.size = SmallCap
    /\ call.ret
    /\ call.actual = BlockMax - 1

\* C9: after every write call, failed or not, the encoder is the empty block
\* (_tx_pos = 1, _tx_buf[0] = 0), and the bytes the call handed to the
\* transport are those a fresh encoder hands over for the same payload.
EncoderReset ==
    (call.op = "write")
        => /\ tx_pos = 1
           /\ BufAt(tx_buf, 0) = 0
           /\ LogBytes(call.log) = FreshLog(call.data)

\* C9 witness: a write failed on a stream that had written 01..FF before, of
\* which _tx_buf still holds bytes
EncoderResetReached ==
    /\ call.op = "write"
    /\ ~call.ret
    /\ call.data = <<0>>
    /\ BufAt(tx_buf, 5) = 5
    /\ nops >= 2

\* C10: write returns true exactly when every transport write of the call
\* returned the count asked for, and a failed transport write changes none of
\* the transport writes the call issues.
FailurePropagation ==
    (call.op = "write")
        => /\ call.ret <=> \A k \in 1..Len(call.log) :
                               call.log[k].ret = Len(call.log[k].bytes)
           /\ LogBytes(call.log) = FreshLog(call.data)
           /\ Len(call.log) >= 1

\* C10 witness: the overhead flush failed, the zero flush and the final block
\* were written all the same, and the call returned false
FailurePropagationReached ==
    /\ call.op = "write"
    /\ ~call.ret
    /\ Len(call.log) = 3
    /\ call.log[1].bytes[1] = BlockMax
    /\ call.log[1].ret # Len(call.log[1].bytes)
    /\ call.log[3].ret = Len(call.log[3].bytes)

\* How many fields a scan matched: the count vsscanf returned, none when the
\* input ended before the first
Matched(scan) == IF scan[1] < 0 THEN 0 ELSE scan[1]

\* C11: scanf returns the number of fields the format matched in the decoded
\* payload (0, 1, 2, ..., also when the payload is empty), and 0 when the
\* packet fails to decode.
ScanfCount ==
    (call.op = "scanf")
        => call.ret = (IF call.decoded THEN Matched(call.scan) ELSE 0)

\* C12: with the decoder in its initial state, a read that finds a lone 00 on
\* the transport returns true with *actual = 0 and writes no byte of the
\* buffer; so does a read that finds 01 00.
ZeroLengthFrame ==
    (call.op = "read" /\ call.zero0 = 1 /\ call.pad0
        /\ call.taken \in {<<0>>, <<1, 0>>})
        => /\ call.ret
           /\ call.status = DecodingDone
           /\ call.actual = 0
           /\ call.data = FreshMem(call.size)

\* C12 witness: a lone 00 was read as the empty packet
ZeroLengthFrameReached ==
    /\ call.op = "read"
    /\ call.zero0 = 1
    /\ call.pad0
    /\ call.taken = <<0>>
    /\ call.ret
    /\ call.actual = 0

\* C13: a write call that ran step by step while a read call was under way
\* handed to the transport, returned and left in the encoder what the same
\* call does when run without interruption, and the decoder is as the reader
\* left it; likewise a read call returns, stores and leaves in the decoder and
\* on the transport what the uninterrupted call does, whatever the writer did
\* meanwhile.
FullDuplex ==
    /\ (wctx.pc = "done")
        => \E a \in {write(wctx.pos0, wctx.buf0, <<>>, wctx.data, <<>>)} :
               /\ a.log = wctx.log
               /\ a.success = wctx.success
               /\ a.pos = tx_pos
               /\ a.buf = tx_buf
    /\ (rctx.pc = "done")
        => \E a \in {read(rctx.zero0, rctx.pad0, rctx.wire0, FreshMem(rctx.size),
                          rctx.size, Unset, 0)} :
               /\ a.status = rctx.status
               /\ a.ret = rctx.ret
               /\ a.actual = rctx.actual
               /\ a.data = rctx.data
               /\ a.out = rctx.out
               /\ a.d.taken = rctx.taken
               /\ a.d.zero = rx_next_zero
               /\ a.d.pad = rx_next_pad
               /\ a.d.io = wire

\* C13 witness: a read entered while the writer was at the second byte of its
\* payload decoded a packet while the writer went on to the third
FullDuplexReached ==
    /\ rctx.pc = "done"
    /\ rctx.wpc0 = "zero"
    /\ rctx.wi0 = 2
    /\ rctx.ret
    /\ rctx.actual = 1
    /\ rctx.taken = <<2, 17, 0>>
    /\ wctx.pc = "zero"
    /\ wctx.i = 3
    /\ wctx.data = <<17, 34, 0, 51>>

\* C14: over the lossless loopback, printf("Number is %i", n) followed by
\* scanf("Number is %i", &d) returns 1 and sets d = n; printf hands over one
\* packet, whose payload is the rendered characters without terminator, and
\* scanf receives all of it, within its 64 bytes.
FormattedRoundTrip ==
    (call.op = "scanf" /\ call.fmt = FmtNumberIs /\ call.prev.op = "printf"
        /\ call.prev.fmt = FmtNumberIs /\ call.prev.wire0 = <<>>)
        => LET text == Render(FmtNumberIs, call.prev.args)
           IN  /\ call.prev.ret
               /\ call.ret = 1
               /\ call.vals = call.prev.args
               /\ call.taken = Emitted(call.prev.log)
               /\ OneZeroAtEnd(call.taken)
               /\ call.decoded
               /\ call.actual = Len(text)
               /\ call.actual <= ScanCap
               /\ call.text = text
               /\ wire = <<>>

\* C14 witness: INT_MIN went through as "Number is -2147483648"
FormattedRoundTripReached ==
    /\ call.op = "scanf"
    /\ call.fmt = FmtNumberIs
    /\ call.prev.op = "printf"
    /\ call.prev.fmt = FmtNumberIs
    /\ call.prev.args = <<IntMin>>
    /\ call.ret = 1
    /\ call.vals = <<IntMin>>
    /\ call.text = <<78, 117, 109, 98, 101, 114, 32, 105, 115, 32,
                     45, 50, 49, 52, 55, 52, 56, 51, 54, 52, 56>>

\* C15: from any decoder state and with any bytes on the transport, one call
\* of _cobs_getc reads at most two bytes and nests at most two deep; a second
\* byte is read only after a length byte that follows a full block or starts
\* a frame, and that second byte is never skipped in its turn.
BoundedStep ==
    (call.op = "getc")
        => /\ call.nread <= 2
           /\ Len(call.taken) <= 2
           /\ call.depth \in 1..2
           /\ (call.depth = 2) =>
                  /\ call.pad0
                  /\ (call.zero0 - 1) % Byte = 0
                  /\ call.taken # <<>>
                  /\ call.taken[1] # 0

\* C15 witness: the first length byte of a frame was skipped, the length byte
\* after it gave a zero, and the third byte stayed on the transport
BoundedStepReached ==
    /\ call.op = "getc"
    /\ call.zero0 = 1
    /\ call.pad0
    /\ call.taken = <<1, 2>>
    /\ call.depth = 2
    /\ call.st = DecodingContinue
    /\ call.val = 0
    /\ wire = <<255>>

\* The bytes of s before its closing zero
Body(s) ==
    IF s # <<>> /\ s[Len(s)] = 0 THEN SubSeq(s, 1, Len(s) - 1) ELSE s

\* What the implicit-zero rule gives for the blocks of b from the length byte
\* b[i] on; full: the block before was one of 255, or there was none.  A
\* length byte gives a zero unless full, and nothing if full; the data bytes
\* of its block give themselves.
RECURSIVE BlockOutputs(_, _, _)
BlockOutputs(b, i, full) ==
    IF i > Len(b) THEN <<>>
    ELSE (IF full THEN <<>> ELSE <<0>>)
             \o SubSeq(b, i + 1, Min(i + b[i] - 1, Len(b)))
             \o BlockOutputs(b, i + b[i], b[i] = BlockMax)

\* The same for bytes that start rem - 1 data bytes before a length byte
Outputs(b, rem, full) ==
    SubSeq(b, 1, Min(rem - 1, Len(b))) \o BlockOutputs(b, rem, full)

\* C16: the values a read call is given are those of the implicit-zero rule
\* applied to the bytes it took: a zero is given only at a length byte whose
\* block before, in the same frame, was not one of 255; the first length byte
\* of a frame and a length byte after a block of 255 give nothing; a zero
\* taken from the transport is never given.
ImplicitZero ==
    (call.op = "read")
        => /\ \A k \in 1..Len(call.taken) :
                  (call.taken[k] = 0) => (k = Len(call.taken))
           /\ call.out = Outputs(Body(call.taken), call.zero0, call.pad0)

\* C16 witness: after a block of 255 the length byte 02 gave no zero, and the
\* 255 bytes given hold none
ImplicitZeroReached ==
    /\ call.op = "read"
    /\ call.ret
    /\ Len(call.taken) > BlockMax
    /\ call.taken[1] = BlockMax
    /\ call.taken[BlockMax + 1] = 2
    /\ Len(call.out) = BlockMax
    /\ \A k \in 1..Len(call.out) : call.out[k] # 0

\* No byte of s is zero
NoZero(s) == \A k \in 1..Len(s) : s[k] # 0

\* A read call is in its loop exactly as long as every transport read gave a
\* byte and none of them was zero; it has its terminal status right after
\* the first zero byte or the first transport read that gave no byte
ReadEndsAtZeroOrFailure ==
    /\ (rctx.pc = "getc")
        => /\ rctx.status = DecodingContinue
           /\ rctx.nread = Len(rctx.taken)
           /\ NoZero(rctx.taken)
    /\ (rctx.pc = "done")
        => \/ /\ rctx.status = DecodingFileError
              /\ rctx.nread = Len(rctx.taken) + 1
              /\ NoZero(rctx.taken)
           \/ /\ rctx.status \in {DecodingDone, DecodingCobsError}
              /\ rctx.nread = Len(rctx.taken)
              /\ OneZeroAtEnd(rctx.taken)

\* The loop of a write call is at payload byte i, and past the last byte
\* when the final block is written
WriterAtEachByte ==
    /\ (wctx.pc \in {"overhead", "zero", "add"}) => (wctx.i \in 1..Len(wctx.data))
    /\ (wctx.pc \in {"last", "done"}) => (wctx.i = Len(wctx.data) + 1)

\* C17: a read call has its terminal status as soon as, and only when, the
\* transport gave a zero byte or a transport read gave no byte; as the
\* transport answers every read, every read call entered returns; every
\* write call entered goes through its payload bytes once each and returns.
Termination ==
    /\ [](ReadEndsAtZeroOrFailure /\ WriterAtEachByte)
    /\ [][wctx.pc \in {"overhead", "zero", "add"} /\ wctx'.pc # "idle"
             => wctx'.i \in {wctx.i, wctx.i + 1}]_vars
    /\ (rctx.pc = "getc") ~> (rctx.pc = "done")
    /\ (wctx.pc \in {"overhead", "zero", "add", "last"}) ~> (wctx.pc = "done")

\* C17 witness: a read ended at the misplaced zero of 01 02 00 and left the
\* frame behind it on the transport
TerminationReached ==
    /\ rctx.pc = "done"
    /\ rctx.status = DecodingCobsError
    /\ rctx.taken = <<1, 2, 0>>
    /\ wire = <<1, 1, 0>>

\* The most one transport write may hold: a block of 255 and the delimiter
MaxTransportWrite == BlockMax + 1

\* C18: at the start of each iteration of the loop of _cobs_write _tx_pos is
\* in 1..255; the indices written, _tx_pos where a byte is added and where
\* the delimiter is put, are at most 255, inside _tx_buf; no transport write
\* of the call holds more than 256 bytes.
EncoderBounds ==
    /\ (wctx.pc = "overhead") => (tx_pos \in 1..BlockMax)
    /\ (wctx.pc \in {"add", "last"}) => (tx_pos \in 0..BlockMax)
    /\ tx_pos < TxBufSize
    /\ (wctx.pc # "idle")
        => \A k \in 1..Len(wctx.log) :
               Len(wctx.log[k].bytes) \in 1..MaxTransportWrite

\* C18 witness: a payload of 254 bytes without zero went out as one transport
\* write of 256 bytes, the delimiter at index 255
EncoderBoundsReached ==
    /\ wctx.pc = "done"
    /\ wctx.data = Ramp(1, BlockMax - 1)
    /\ Len(wctx.log) = 1
    /\ Len(wctx.log[1].bytes) = MaxTransportWrite
    /\ wctx.log[1].bytes[MaxTransportWrite] = 0

\* The handlers of the commands whose name is the packet p
HandlersFor(p) == {commands[i].handler : i \in {j \in 1..command_count : commands[j].name = p}}

\* C19: each iteration of the loop of main goes back to the loop and does
\* exactly one of: (a) read failed: cobs_errors is one more, no handler;
\* (b) a packet of length 0: nothing changes, no handler; (c) the packet, at
\* its true length, is the name of a command: that command's handler, no
\* counter changes; (d) any other packet: unknown_commands is one more, no
\* handler.
CommandLoop ==
    (call.op = "main")
        => /\ call.next = "while"
           /\ IF ~call.good_read
              THEN /\ cobs_errors = call.errors0 + 1
                   /\ unknown_commands = call.unknown0
                   /\ call.handler = "none"
              ELSE IF call.out = <<>>
              THEN /\ cobs_errors = call.errors0
                   /\ unknown_commands = call.unknown0
                   /\ call.handler = "none"
              ELSE IF HandlersFor(call.out) # {}
              THEN /\ cobs_errors = call.errors0
                   /\ unknown_commands = call.unknown0
                   /\ HandlersFor(call.out) = {call.handler}
              ELSE /\ cobs_errors = call.errors0
                   /\ unknown_commands = call.unknown0 + 1
                   /\ call.handler = "none"

\* C19 witness: after a read that failed and was counted, the packet "dump"
\* called its handler and left both counters as they were
CommandLoopReached ==
    /\ call.op = "main"
    /\ call.out = <<100, 117, 109, 112>>
    /\ call.handler = "dump_handler"
    /\ cobs_errors = 1
    /\ call.errors0 = 1
    /\ unknown_commands = 0

\* The stream calls a RemoteFile operation is to make, in order
CallsOf(op) ==
    CASE op = "read"  -> <<"printf", "read">>
      [] op = "write" -> <<"printf", "write", "scanf">>
      [] OTHER        -> <<"printf", "scanf">>

\* The payloads of the packets an operation is to send, in order
RequestsOf(op, args) ==
    CASE op = "read"  -> <<Render(FmtRead, args)>>
      [] op = "write" -> <<Render(FmtWrite, <<>>), args[1]>>
      [] op = "seek"  -> <<Render(FmtSeek, args)>>
      [] OTHER        -> <<Render(FmtClose, <<>>)>>

\* What a decoder at its start makes of the frame f
Decoded(f) == read(1, TRUE, f, FreshMem(Len(f)), Len(f), Unset, 0)

\* C20: a RemoteFile operation makes its stream calls in this order: read:
\* printf, read; write: printf, write, scanf; seek and close: printf, scanf.
\* Each sending call sends exactly one packet, with the request text or the
\* data as payload, and takes no received byte; each receiving call begins
\* when all the request bytes of the operation are written, sends nothing,
\* and takes received bytes up to the first zero at most (all of one packet
\* when the transport delivers it).  write, seek and close return what the
\* response's scanf assigned, and -1 when it assigned nothing.
RemoteOrdering ==
    (call.op \in {"read", "write", "seek", "close"})
        => LET ev == call.events
               n  == Len(CallsOf(call.op))
               rq == RequestsOf(call.op, call.args)
               rx == ev[n]
           IN  /\ [k \in 1..Len(ev) |-> ev[k].call] = CallsOf(call.op)
               /\ \A k \in 1..(n - 1) :
                      /\ ev[k].taken = <<>>
                      /\ ev[k].sent # <<>>
                      /\ NoZero(Body(ev[k].sent))
                      /\ \E d \in {Decoded(ev[k].sent)} : d.ret /\ d.out = rq[k]
               /\ rx.sent = <<>>
               /\ rx.before = call.written
               /\ rx.before = Len(ev[1].sent) + (IF n = 3 THEN Len(ev[2].sent) ELSE 0)
               /\ NoZero(Body(rx.taken))
               /\ rx.taken \o wire = call.wire0
               /\ (call.good => rx.taken # <<>> /\ rx.taken[Len(rx.taken)] = 0)
               /\ (call.op # "read")
                      => /\ Len(call.parsed) <= 1
                         /\ (call.parsed = <<>>) => (call.ret = -1)
                         /\ (call.parsed # <<>>) => (call.ret = call.parsed[1])

\* C20 witness: write sent "write" and the data 11 00 as two packets before
\* it took the response "12", and returned 12
RemoteOrderingReached ==
    /\ call.op = "write"
    /\ call.events[1].sent = <<6, 119, 114, 105, 116, 101, 0>>
    /\ call.events[2].sent = <<2, 17, 1, 0>>
    /\ call.events[3].taken = <<3, 49, 50, 0>>
    /\ call.events[3].before = 11
    /\ call.ret = 12

\* C21: _rx_next_zero is in 1..255 whenever no call is running, and it was in
\* 1..255 at the entry of every _cobs_getc call of a read, the nested ones
\* included: the decrement never takes it from 0 to 255.
CounterNeverUnderflows ==
    /\ rx_next_zero \in 1..(Byte - 1)
    /\ (call.op = "read") => (call.least \in 1..(Byte - 1) /\ call.zero0 \in 1..(Byte - 1))

\* C21 witness: a read that began inside the frame 03 11 00, right after its
\* length byte, where a transport failure had ended the read before, entered
\* _cobs_getc with 3 and with 2 and ended at the zero
CounterNeverUnderflowsReached ==
    /\ call.op = "read"
    /\ call.zero0 = 3
    /\ call.least = 2
    /\ call.taken = <<17, 0>>
    /\ call.status = DecodingCobsError

\* C22: whenever scanf has received a packet, of any payload length, the
\* index at which it writes the terminator, buf[actual], is inside the 65
\* bytes of buf: actual <= 64.
TerminatorInBounds ==
    (call.op = "scanf" /\ call.decoded)
        => /\ call.actual <= ScanCap
           /\ ~call.oob

\* C23: a read that returns false, after a protocol error or a transport
\* failure, leaves *actual at the value it had before the call (here the
\* length of no packet, as the self test sets it); *actual is assigned, the
\* number of bytes decoded, exactly when the read ends with DecodingDone.
FailureKeepsActual ==
    (call.op = "read")
        => /\ call.ret = (call.status = DecodingDone)
           /\ (~call.ret) => /\ call.status \in {DecodingCobsError, DecodingFileError}
                             /\ call.actual = Unset
           /\ call.ret => (call.actual = Len(call.out))

\* C23 witness: the self test's invalid frame 01 02 00 was refused after one
\* byte had been decoded, and *actual is as it was
FailureKeepsActualReached ==
    /\ call.op = "read"
    /\ call.zero0 = 1
    /\ call.taken = <<1, 2, 0>>
    /\ call.out = <<0>>
    /\ ~call.ret
    /\ call.status = DecodingCobsError
    /\ call.actual = Unset

\* C24: whatever the remote end sends in response (a packet of any length, a
\* malformed frame, nothing at all), what RemoteFile::read(buffer, size)
\* returns was assigned by the decoder during the call and lies in 0..size.
ReadResultBounded ==
    (call.op = "read")
        => /\ call.good
           /\ call.ret \in 0..call.args[1]

====
